---------------------------- MODULE Spec2Model ----------------------------
(***************************************************************************)
(* A model of news_summarizer.py: NewsSummarizer.fetch_articles (a pool of *)
(* one worker per feed, joined by as_completed) and                        *)
(* NewsSummarizer.process_articles (the sequential per-article pass:       *)
(* extract, length check, chunk, summarize each chunk, classify).          *)
(*                                                                         *)
(* Strings are sequences of one-character strings.  The HTTP client, the   *)
(* XML and HTML parsers and the two model pipelines are the environment:   *)
(* what each returns or raises is chosen from small sets.                  *)
(***************************************************************************)
EXTENDS Integers, Sequences, FiniteSets

VARIABLES
    entry,        \* the method the caller invoked
    env,          \* what each feed request will do (the network's behaviour)
    maxArticles,  \* process_articles' parameter max_articles
    pc,           \* position of the main thread
    future,       \* per source: the worker's future
    collected,    \* futures the as_completed loop has iterated over
    articles,     \* fetch_articles' dict, in insertion order
    results,      \* process_articles' result list
    si,           \* position of the loop over articles.values()
    ai,           \* position of the loop over urls[:max_articles]
    extracted,    \* history: urls passed to _extract_article_text, in order
    resultUrls,   \* history: the url behind each entry of results
    last,         \* history: what the last article's iteration did
    call          \* a single call of a pure step (chunking, length bounds)

vars == <<entry, env, maxArticles, pc, future, collected, articles, results,
          si, ai, extracted, resultUrls, last, call>>

-----------------------------------------------------------------------------
(* Bounds of the model *)

\* max_articles ranges over 0..MaxCap
MaxCap == 2
\* words of the long (multi-chunk) article page
LongWords == 250
\* characters of the summary the summarizer stub returns for one chunk
SumLen == 260
\* text lengths 0..MaxTextLen are chunked in SpecChunk
MaxTextLen == 2001
\* chunks of 0..MaxWords words get length bounds in SpecBounds
MaxWords == 500

(* Constants of the program *)

ChunkSize == 1000
SentimentLimit == 500
MinWords == 50
MaxLenFloor == 5
MinLenFloor == 3

-----------------------------------------------------------------------------
(* Python helpers *)

Min(a, b) == IF a <= b THEN a ELSE b
Max(a, b) == IF a >= b THEN a ELSE b

\* s[a:b] for 0 <= a <= b: the slice is clamped to the string
Slice(s, a, b) == SubSeq(s, Min(a, Len(s)) + 1, Min(b, Len(s)))

\* s[:n] of a list
Take(s, n) == Slice(s, 0, n)

IsSpace(c) == c = " "

\* len(s.split()): the number of maximal runs of non-whitespace
WordCount(s) ==
    Cardinality({i \in 1..Len(s) :
                    /\ ~IsSpace(s[i])
                    /\ (i = 1 \/ IsSpace(s[i - 1]))})

\* int(n * 0.5), int(n * 0.2): n times tenths/10, truncated
TruncTenths(n, tenths) == (n * tenths) \div 10

\* sep.join(parts)
RECURSIVE Join(_, _)
Join(parts, sep) ==
    IF parts = <<>> THEN <<>>
    ELSE IF Len(parts) = 1 THEN parts[1]
    ELSE parts[1] \o sep \o Join(Tail(parts), sep)

\* d[k] = v on an insertion-ordered dict, kept as a sequence of [key, value]
DictSet(d, k, v) ==
    IF \E i \in 1..Len(d) : d[i].key = k
    THEN [i \in 1..Len(d) |-> IF d[i].key = k THEN [key |-> k, value |-> v] ELSE d[i]]
    ELSE Append(d, [key |-> k, value |-> v])

DictKeys(d) == {d[i].key : i \in 1..Len(d)}

DictGet(d, k) == d[CHOOSE i \in 1..Len(d) : d[i].key = k].value

-----------------------------------------------------------------------------
(* The feeds *)

Sources == {"RSS Feed World", "RSS Feed Politics", "RSS Feed Science", "RSS Feed Tech"}

FetchOutcomes == {"ok", "network_error", "timeout", "malformed_xml"}

\* The <item> elements of each feed document, in document order; each is its
\* <link> text, "" for an empty <link/>, or NoLink for an item without one.
NoLink == "none"
FeedDoc ==
    [s \in Sources |->
        CASE s = "RSS Feed World"    -> <<"w1", NoLink, "w2">>
          [] s = "RSS Feed Politics" -> <<"p1">>
          [] s = "RSS Feed Science"  -> <<>>
          [] s = "RSS Feed Tech"     -> <<"">>]

\* the loop over root.findall('.//item')
RECURSIVE ParseLinks(_)
ParseLinks(items) ==
    IF items = <<>> THEN <<>>
    ELSE IF items[1] # NoLink /\ items[1] # ""
         THEN <<items[1]>> \o ParseLinks(Tail(items))
         ELSE ParseLinks(Tail(items))

\* _fetch_source without its except clause: the exception reaches the future
FetchSourceUncaught(s, outcome) ==
    IF outcome = "ok"
    THEN [raised |-> FALSE, result |-> ParseLinks(FeedDoc[s])]
    ELSE [raised |-> TRUE, result |-> <<>>]

\* _fetch_source: every exception is caught and turned into []
FetchSourceResult(s, outcome) ==
    IF outcome = "ok"
    THEN [raised |-> FALSE, result |-> ParseLinks(FeedDoc[s])]
    ELSE [raised |-> FALSE, result |-> <<>>]

IdleFuture == [state |-> "idle", raised |-> FALSE, result |-> <<>>]

\* an as_completed loop left after its first iteration
EarlyExit == collected # {}

\* the as_completed loop ends when it has yielded every future
AsCompletedExhausted == collected = Sources

AllWorkersDone == \A s \in Sources : future[s].state = "done"

-----------------------------------------------------------------------------
(* fetch_articles *)

NoArticle ==
    [url |-> "none", words |-> 0, chunked |-> FALSE,
     outcomes |-> <<>>, sumCalls |-> <<>>, summaries |-> <<>>, final |-> <<>>,
     sent |-> "none", sentCalls |-> <<>>, appended |-> FALSE]

NoCall == [op |-> "none", arg |-> <<>>, done |-> FALSE, out |-> <<>>]

InitMain ==
    /\ pc = "start"
    /\ future = [s \in Sources |-> IdleFuture]
    /\ collected = {}
    /\ articles = <<>>
    /\ results = <<>>
    /\ si = 1
    /\ ai = 1
    /\ extracted = <<>>
    /\ resultUrls = <<>>
    /\ last = NoArticle

InitCommon == InitMain /\ call = NoCall

\* executor.submit for every source
Submit ==
    /\ pc = "start"
    /\ future' = [s \in Sources |-> [IdleFuture EXCEPT !.state = "running"]]
    /\ pc' = "collect"
    /\ UNCHANGED <<entry, env, maxArticles, collected, articles, results, si, ai,
                   extracted, resultUrls, last, call>>

\* a worker runs _fetch_source to its end
FetchSource(s) ==
    /\ future[s].state = "running"
    /\ LET r == FetchSourceResult(s, env[s]) IN
           future' = [future EXCEPT ![s] =
                        [state |-> "done", raised |-> r.raised, result |-> r.result]]
    /\ UNCHANGED <<entry, env, maxArticles, pc, collected, articles, results, si, ai,
                   extracted, resultUrls, last, call>>

\* one iteration of "for future in as_completed(...)"
Collect(s) ==
    /\ pc = "collect"
    /\ s \notin collected
    /\ future[s].state = "done"
    /\ collected' = collected \cup {s}
    /\ articles' = IF future[s].raised THEN articles
                   ELSE DictSet(articles, s, future[s].result)
    /\ UNCHANGED <<entry, env, maxArticles, pc, future, results, si, ai,
                   extracted, resultUrls, last, call>>

\* the loop and the with block end; fetch_articles returns
FetchReturn ==
    /\ pc = "collect"
    /\ AsCompletedExhausted
    /\ pc' = IF entry = "process_articles" THEN "process" ELSE "done"
    /\ UNCHANGED <<entry, env, maxArticles, future, collected, articles, results,
                   si, ai, extracted, resultUrls, last, call>>

NextFetch ==
    \/ Submit
    \/ \E s \in Sources : FetchSource(s)
    \/ \E s \in Sources : Collect(s)
    \/ FetchReturn

InitFetch ==
    /\ entry = "fetch_articles"
    /\ env \in [Sources -> FetchOutcomes]
    /\ maxArticles = 0
    /\ InitCommon

SpecFetch == InitFetch /\ [][NextFetch]_vars

-----------------------------------------------------------------------------
(* Article texts *)

Letters == <<"a", "b", "c">>

\* n words of wl letters each, joined by single spaces (the shape
\* _extract_article_text returns: whitespace collapsed and stripped);
\* the letter changes from word to word
MkText(n, wl) ==
    [i \in 1..(n * (wl + 1) - 1) |->
        IF i % (wl + 1) = 0 THEN " " ELSE Letters[((i \div (wl + 1)) % 3) + 1]]

\* What _extract_article_text can return for a url: "" when the request or
\* the parse failed (or the page has no paragraph), else the page's text.
ExtractedTexts ==
    {<<>>, MkText(MinWords - 1, 9), MkText(MinWords, 9), MkText(LongWords, 5)}

SumOutcomes == {"ok", "error"}
SentOutcomes == {"positive", "error"}

-----------------------------------------------------------------------------
(* One article of process_articles *)

\* the negation of "not text or len(text.split()) < 50"
AcceptsOneWordLess(text) == text # <<>> /\ WordCount(text) >= MinWords - 1

LengthOK(text) == text # <<>> /\ ~(WordCount(text) < MinWords)

\* chunks taken with a stride one short of the window: they overlap
ChunksOverlapping(text) ==
    LET starts == {i \in 0..(Len(text) - 1) : i % (ChunkSize - 1) = 0} IN
        [k \in 1..Cardinality(starts) |->
            Slice(text, (k - 1) * (ChunkSize - 1), (k - 1) * (ChunkSize - 1) + ChunkSize)]

\* [text[i:i+1000] for i in range(0, len(text), 1000)]
Chunks(text) ==
    LET starts == {i \in 0..(Len(text) - 1) : i % ChunkSize = 0} IN
        [k \in 1..Cardinality(starts) |->
            Slice(text, (k - 1) * ChunkSize, (k - 1) * ChunkSize + ChunkSize)]

\* the two bounds with the factors of max_len and min_len exchanged
SummaryBoundsSwapped(chunk) ==
    LET input_len == WordCount(chunk) IN
        [max_length |-> Max(MaxLenFloor, TruncTenths(input_len, 2)),
         min_length |-> Max(MinLenFloor, TruncTenths(input_len, 5))]

\* the two bounds without their floors of 5 and 3
SummaryBoundsNoFloor(chunk) ==
    LET input_len == WordCount(chunk) IN
        [max_length |-> TruncTenths(input_len, 5),
         min_length |-> TruncTenths(input_len, 2)]

\* input_len, max_len and min_len of one chunk
SummaryBounds(chunk) ==
    LET input_len == WordCount(chunk) IN
        [max_length |-> Max(MaxLenFloor, TruncTenths(input_len, 5)),
         min_length |-> Max(MinLenFloor, TruncTenths(input_len, 2))]

\* The summarizer's [0]['summary_text'] for a chunk, when it returns: the
\* stub answers with the chunk's first SumLen characters.
SummaryText(chunk) == Slice(chunk, 0, SumLen)

\* the loop over chunks: a failed call appends nothing and the loop goes on
RECURSIVE Summaries(_, _)
Summaries(chunks, outcomes) ==
    IF chunks = <<>> THEN <<>>
    ELSE (IF outcomes[1] = "ok" THEN <<SummaryText(chunks[1])>> ELSE <<>>)
         \o Summaries(Tail(chunks), Tail(outcomes))

\* a check on the chunks instead of the summaries
HasChunks(chunks, summaries) == chunks # <<>>

\* the negation of "not summaries"
HasSummaries(chunks, summaries) == summaries # <<>>

\* " ".join(summaries)
FinalSummary(summaries) == Join(summaries, <<" ">>)

\* the whole summary, not cut
SentimentInputUncut(final_summary) == final_summary

\* final_summary[:500]
SentimentInput(final_summary) == Slice(final_summary, 0, SentimentLimit)

\* Lines 113-126 for one extracted text: the length check, the chunks and
\* the bounds of each chunk's summarizer call.
Prepare(text) ==
    LET ok == LengthOK(text)
        chunks == IF ok THEN Chunks(text) ELSE <<>>
    IN  [words |-> WordCount(text),
         chunked |-> ok,
         chunks |-> chunks,
         sumCalls |-> [k \in 1..Len(chunks) |-> SummaryBounds(chunks[k])]]

\* a sentiment failure handled by storing the result without a label
FinishKeepsPartial(prep, outcomes, sent) ==
    LET summaries == Summaries(prep.chunks, outcomes)
        called == prep.chunked /\ HasSummaries(prep.chunks, summaries)
        final == IF called THEN FinalSummary(summaries) ELSE <<>>
    IN  [summaries |-> summaries,
         final |-> final,
         sentCalls |-> IF called THEN <<SentimentInput(final)>> ELSE <<>>,
         appended |-> called,
         result |-> [summary |-> final,
                     sentiment |-> IF sent = "error" THEN "" ELSE sent]]

\* Lines 120-149 for one prepared text: which summaries are kept, whether
\* the sentiment analyzer is called and whether results.append is reached.
\* outcomes[k] is what the summarizer does on chunk k, sent what the
\* sentiment analyzer does; an exception there leaves the try block.
Finish(prep, outcomes, sent) ==
    LET summaries == Summaries(prep.chunks, outcomes) IN
    IF ~prep.chunked \/ ~HasSummaries(prep.chunks, summaries)
    THEN [summaries |-> summaries, final |-> <<>>, sentCalls |-> <<>>,
          appended |-> FALSE, result |-> [summary |-> <<>>, sentiment |-> ""]]
    ELSE
      LET final_summary == FinalSummary(summaries) IN
          [summaries |-> summaries,
           final |-> final_summary,
           sentCalls |-> <<SentimentInput(final_summary)>>,
           appended |-> sent # "error",
           result |-> [summary |-> final_summary, sentiment |-> sent]]

-----------------------------------------------------------------------------
(* process_articles *)

\* urls[:max_articles + 1]
CappedOneMore(urls) == Take(urls, maxArticles + 1)

\* urls[:max_articles]
Capped(urls) == Take(urls, maxArticles)

\* Prepare and Finish tabulated over the inputs the environment draws from
PrepareOf == [text \in ExtractedTexts |-> Prepare(text)]

FinishOf ==
    [text \in ExtractedTexts |->
        [outcomes \in [1..Len(PrepareOf[text].chunks) -> SumOutcomes] |->
            [sent \in SentOutcomes |-> Finish(PrepareOf[text], outcomes, sent)]]]

\* One iteration of "for url in urls[:max_articles]": text is what
\* _extract_article_text returns, outcomes and sent what the two pipelines do
\* if called.  last.sent records the analyzer's behaviour only when called.
ProcessArticle ==
    /\ pc = "process"
    /\ si <= Len(articles)
    /\ ai <= Len(Capped(articles[si].value))
    /\ LET url == Capped(articles[si].value)[ai] IN
       \E text \in ExtractedTexts :
         \E prep \in {PrepareOf[text]} :
         \E outcomes \in [1..Len(prep.chunks) -> SumOutcomes] :
           \E sent \in SentOutcomes :
             \E run \in {FinishOf[text][outcomes][sent]} :
               /\ extracted' = Append(extracted, url)
               /\ results' = IF run.appended THEN Append(results, run.result)
                             ELSE results
               /\ resultUrls' = IF run.appended THEN Append(resultUrls, url)
                                ELSE resultUrls
               /\ last' = [url |-> url, words |-> prep.words,
                           chunked |-> prep.chunked, outcomes |-> outcomes,
                           sumCalls |-> prep.sumCalls, summaries |-> run.summaries,
                           final |-> run.final,
                           sent |-> IF run.sentCalls # <<>> THEN sent ELSE "none",
                           sentCalls |-> run.sentCalls, appended |-> run.appended]
    /\ ai' = ai + 1
    /\ UNCHANGED <<entry, env, maxArticles, pc, future, collected, articles, si, call>>

\* the inner loop is exhausted: the next value of articles.values()
NextSource ==
    /\ pc = "process"
    /\ si <= Len(articles)
    /\ ai > Len(Capped(articles[si].value))
    /\ si' = si + 1
    /\ ai' = 1
    /\ UNCHANGED <<entry, env, maxArticles, pc, future, collected, articles, results,
                   extracted, resultUrls, last, call>>

\* return results
ProcessReturn ==
    /\ pc = "process"
    /\ si > Len(articles)
    /\ pc' = "done"
    /\ UNCHANGED <<entry, env, maxArticles, future, collected, articles, results,
                   si, ai, extracted, resultUrls, last, call>>

\* the feed behaviours process_articles is run against
Scenarios ==
    { [s \in Sources |-> "ok"],
      [s \in Sources |-> IF s = "RSS Feed World" THEN "network_error" ELSE "ok"],
      [s \in Sources |-> CASE s = "RSS Feed Politics" -> "timeout"
                           [] s = "RSS Feed Tech" -> "malformed_xml"
                           [] OTHER -> "ok"] }

Init ==
    /\ entry = "process_articles"
    /\ env \in Scenarios
    /\ maxArticles \in 0..MaxCap
    /\ InitCommon

Next ==
    \/ Submit
    \/ \E s \in Sources : FetchSource(s)
    \/ \E s \in Sources : Collect(s)
    \/ FetchReturn
    \/ ProcessArticle
    \/ NextSource
    \/ ProcessReturn

Spec == Init /\ [][Next]_vars

\* The main thread and the workers keep running, and every external call
\* returns or raises.
FairSpec == Spec /\ WF_vars(Next)

-----------------------------------------------------------------------------
(* Single calls of the two pure steps of the per-chunk code *)

\* the first n characters of a text of many five-letter words
TextOfLen(n) == Slice(MkText(n, 5), 0, n)

InitChunk ==
    /\ entry = "chunks"
    /\ env = [s \in Sources |-> "ok"]
    /\ maxArticles = 0
    /\ InitMain
    /\ \E n \in 0..MaxTextLen :
         call = [op |-> "chunks", arg |-> TextOfLen(n), done |-> FALSE, out |-> <<>>]

\* line 118 on call.arg
ApplyChunks ==
    /\ call.op = "chunks"
    /\ ~call.done
    /\ call' = [call EXCEPT !.done = TRUE, !.out = Chunks(call.arg)]
    /\ UNCHANGED <<entry, env, maxArticles, pc, future, collected, articles, results,
                   si, ai, extracted, resultUrls, last>>

SpecChunk == InitChunk /\ [][ApplyChunks]_vars

InitBounds ==
    /\ entry = "bounds"
    /\ env = [s \in Sources |-> "ok"]
    /\ maxArticles = 0
    /\ InitMain
    /\ \E w \in 0..MaxWords :
         call = [op |-> "bounds", arg |-> MkText(w, 1), done |-> FALSE, out |-> <<>>]

\* lines 123-126 on the chunk call.arg
ApplyBounds ==
    /\ call.op = "bounds"
    /\ ~call.done
    /\ call' = [call EXCEPT !.done = TRUE, !.out = SummaryBounds(call.arg)]
    /\ UNCHANGED <<entry, env, maxArticles, pc, future, collected, articles, results,
                   si, ai, extracted, resultUrls, last>>

SpecBounds == InitBounds /\ [][ApplyBounds]_vars

-----------------------------------------------------------------------------
(* Properties *)

FirstN(seq, n) == [i \in 1..Min(n, Len(seq)) |-> seq[i]]

IsPrefix(p, q) == Len(p) <= Len(q) /\ \A i \in 1..Len(p) : p[i] = q[i]

RECURSIVE IsSubseq(_, _)
IsSubseq(p, q) ==
    IF p = <<>> THEN TRUE
    ELSE IF q = <<>> THEN FALSE
    ELSE IF p[1] = q[1] THEN IsSubseq(Tail(p), Tail(q))
    ELSE IsSubseq(p, Tail(q))

RECURSIVE Concat(_)
Concat(seqs) == IF seqs = <<>> THEN <<>> ELSE seqs[1] \o Concat(Tail(seqs))

CeilDiv(a, b) == (a + b - 1) \div b

\* round(n * tenths / 10), ties to the even neighbour
RoundTenths(n, tenths) ==
    LET q == (n * tenths) \div 10
        r == (n * tenths) % 10
    IN  IF r > 5 \/ (r = 5 /\ q % 2 = 1) THEN q + 1 ELSE q

\* the links of a source's feed document when its fetch succeeds, else none
LinksOf(s) == IF env[s] = "ok" THEN ParseLinks(FeedDoc[s]) ELSE <<>>

\* the urls the pass over articles is to attempt: per source, in the dict's
\* order, the first min(max_articles, n) links of its feed
RECURSIVE ExpectedFrom(_)
ExpectedFrom(d) ==
    IF d = <<>> THEN <<>>
    ELSE FirstN(LinksOf(d[1].key), maxArticles) \o ExpectedFrom(Tail(d))

ArticleStep == extracted' # extracted

AllFailed(l) == \A k \in DOMAIN l.outcomes : l.outcomes[k] = "error"

OkCount(l) == Cardinality({k \in DOMAIN l.outcomes : l.outcomes[k] = "ok"})

\* C1: when fetch_articles returns, whatever each fetch did and in whatever
\* order the workers completed, the dict has exactly one key per configured
\* source; a source whose fetch failed maps to [] and every other source
\* maps to the links of its own feed.
C1_KeySetEqualsSources ==
    (entry = "fetch_articles" /\ pc = "done") =>
        /\ DictKeys(articles) = Sources
        /\ Len(articles) = Cardinality(Sources)
        /\ \A s \in Sources :
             DictGet(articles, s) =
                IF env[s] = "ok" THEN ParseLinks(FeedDoc[s]) ELSE <<>>

C1_Witness ==
    /\ entry = "fetch_articles" /\ pc = "done"
    /\ env["RSS Feed Politics"] = "timeout"
    /\ env["RSS Feed Science"] = "malformed_xml"
    /\ env["RSS Feed Tech"] = "network_error"
    /\ env["RSS Feed World"] = "ok"
    /\ articles[1].key = "RSS Feed Politics"
    /\ DictGet(articles, "RSS Feed World") = <<"w1", "w2">>

\* C2: an article whose text has fewer than 50 words (the empty text of a
\* failed extraction included) appends no result and reaches neither the
\* summarizer nor the sentiment analyzer; one of exactly 50 words passes the
\* length check and is chunked and summarized.
C2_ShortArticleSkipped ==
    [][ArticleStep =>
          /\ (last'.words < MinWords =>
                /\ results' = results
                /\ ~last'.chunked
                /\ last'.sumCalls = <<>>
                /\ last'.sentCalls = <<>>)
          /\ (last'.words = MinWords =>
                /\ last'.chunked
                /\ last'.sumCalls # <<>>)]_vars

C2_Witness ==
    /\ last.url # "none"
    /\ last.words = MinWords - 1
    /\ ~last.chunked
    /\ results # <<>>

\* C3: extraction is attempted on exactly the first min(max_articles, n)
\* links of each source, in feed order and in the order of the sources in
\* the dict, never on a later link; results follow the order of their links.
C3_CapAndOrder ==
    (pc \in {"process", "done"}) =>
        /\ IsPrefix(extracted, ExpectedFrom(articles))
        /\ (pc = "done" => extracted = ExpectedFrom(articles))
        /\ Len(resultUrls) = Len(results)
        /\ IsSubseq(resultUrls, extracted)

C3_Witness ==
    /\ pc = "done"
    /\ maxArticles = 1
    /\ env = [s \in Sources |-> "ok"]
    /\ \E i \in 1..Len(extracted) : extracted[i] = "w1"
    /\ \A i \in 1..Len(extracted) : extracted[i] # "w2"
    /\ Len(results) = 2

\* C4: a text of length L >= 1 is cut into ceil(L/1000) chunks, all of 1000
\* characters except the last, which has 1 to 1000, and the chunks
\* concatenated in order are the text.
C4_ChunksPartitionText ==
    (call.op = "chunks" /\ call.done /\ Len(call.arg) >= 1) =>
        LET n == Len(call.out) IN
        /\ n = CeilDiv(Len(call.arg), ChunkSize)
        /\ \A k \in 1..(n - 1) : Len(call.out[k]) = ChunkSize
        /\ Len(call.out[n]) >= 1
        /\ Len(call.out[n]) <= ChunkSize
        /\ Concat(call.out) = call.arg

C4_Witness ==
    /\ call.op = "chunks" /\ call.done
    /\ Len(call.arg) = 2 * ChunkSize + 1
    /\ Len(call.out) = 3
    /\ Len(call.out[3]) = 1

\* C5 as stated: for a chunk of w words the bounds are
\* max(5, round(0.5 w)) and max(3, round(0.2 w)).
C5_BoundsRounded ==
    (call.op = "bounds" /\ call.done) =>
        LET w == WordCount(call.arg) IN
        /\ call.out.max_length = Max(5, RoundTenths(w, 5))
        /\ call.out.min_length = Max(3, RoundTenths(w, 2))

\* C5 amended: for a chunk of w words the bounds are max(5, floor(w/2)) and
\* max(3, floor(w/5)); w = 1 and w = 6 give (5, 3), w = 100 gives (50, 20).
C5_BoundsTruncated ==
    (call.op = "bounds" /\ call.done) =>
        LET w == WordCount(call.arg) IN
        /\ call.out.max_length = Max(5, w \div 2)
        /\ call.out.min_length = Max(3, w \div 5)
        /\ (w \in {1, 6} => call.out = [max_length |-> 5, min_length |-> 3])
        /\ (w = 100 => call.out = [max_length |-> 50, min_length |-> 20])

C5_Witness ==
    /\ call.op = "bounds" /\ call.done
    /\ WordCount(call.arg) = 11
    /\ call.out = [max_length |-> 5, min_length |-> 3]

\* C6: when the summarizer fails on every chunk of an article, no result is
\* appended and the sentiment analyzer is not called; when it succeeds on
\* some chunk, exactly the successful chunks' summaries are joined and the
\* analyzer is called once.
C6_AllChunksFailNoResult ==
    [][(ArticleStep /\ last'.chunked) =>
          /\ (AllFailed(last') =>
                /\ results' = results
                /\ last'.summaries = <<>>
                /\ last'.sentCalls = <<>>)
          /\ (~AllFailed(last') =>
                /\ Len(last'.summaries) = OkCount(last')
                /\ Len(last'.final) =
                     Len(Concat(last'.summaries)) + Len(last'.summaries) - 1
                /\ Len(last'.sentCalls) = 1)]_vars

C6_Witness ==
    /\ last.chunked
    /\ Len(last.outcomes) = 2
    /\ AllFailed(last)
    /\ last.sentCalls = <<>>
    /\ results # <<>>

\* C7: the sentiment analyzer's input is the first min(500, len) characters
\* of the joined summary, so never longer than 500; a longer summary is still
\* classified, and the result stores the whole summary.
C7_SentimentInputTruncated ==
    /\ \A i \in 1..Len(last.sentCalls) :
         /\ Len(last.sentCalls[i]) <= SentimentLimit
         /\ last.sentCalls[i] = FirstN(last.final, SentimentLimit)
    /\ (last.final # <<>> => Len(last.sentCalls) = 1)
    /\ (last.sent = "positive" => last.appended)
    /\ (last.appended => results[Len(results)].summary = last.final)

C7_Witness ==
    /\ Len(last.final) > SentimentLimit
    /\ last.appended
    /\ Len(last.sentCalls[1]) = SentimentLimit
    /\ Len(results[Len(results)].summary) > SentimentLimit

\* an article whose iteration ended in a failure: extraction returned "",
\* every summarizer call raised, or the sentiment analyzer raised
Failed(l) == l.words = 0 \/ (l.chunked /\ AllFailed(l)) \/ l.sent = "error"

\* C8: a failing article leaves the results as they were and the loop goes
\* on to the next link; results once appended are never changed; and at the
\* end every capped link of every source has been attempted.
C8_FailureIsolated ==
    /\ [][(ArticleStep /\ Failed(last')) =>
            /\ results' = results
            /\ pc' = "process" /\ si' = si /\ ai' = ai + 1]_vars
    /\ [][IsPrefix(results, results')]_vars
    /\ [](pc = "done" => Len(extracted) = Len(ExpectedFrom(articles)))

C8_Witness ==
    /\ pc = "process"
    /\ last.sent = "error"
    /\ Len(last.sentCalls) = 1
    /\ Len(extracted) = 2
    /\ resultUrls = <<extracted[1]>>
    /\ Len(results) = 1

\* C9: no article is extracted before every fetch worker has completed, and
\* once all have completed process_articles returns, having attempted every
\* capped link.
C9_JoinBarrier ==
    /\ []((pc \in {"process", "done"} \/ extracted # <<>>) => AllWorkersDone)
    /\ (AllWorkersDone ~> (pc = "done" /\ extracted = ExpectedFrom(articles)))

C9_Witness ==
    /\ pc = "done"
    /\ AllWorkersDone
    /\ Len(extracted) = 2
    /\ \E s \in Sources : env[s] # "ok"

\* C10: for every chunk the summarizer's min_length is at most its
\* max_length, with max_length >= 5 and min_length >= 3.
C10_MinAtMostMax ==
    (call.op = "bounds" /\ call.done) =>
        /\ call.out.min_length <= call.out.max_length
        /\ call.out.max_length >= 5
        /\ call.out.min_length >= 3

C10_Witness ==
    /\ call.op = "bounds" /\ call.done
    /\ WordCount(call.arg) = 12
    /\ call.out = [max_length |-> 6, min_length |-> 3]

=============================================================================
